---- MODULE Spec2Model ----
(***************************************************************************)
(* A model of graphqllib's validation front end and lexer:                 *)
(*   graphql/core/validation/__init__.py  (validate, ValidationVisitor,    *)
(*                                         ValidationContext)              *)
(*   graphql/core/language/lexer.py       (Lexer, read_token and helpers)  *)
(* The traversal engine (language/visitor.py) and TypeInfo (utils) are     *)
(* collaborators whose code is not part of the two files; they are         *)
(* modelled from the specification's description of them.                  *)
(***************************************************************************)
EXTENDS Integers, Sequences, FiniteSets, TLC

VARIABLES
    mode,          \* which program runs in this behaviour
    \* ---- validate() ----
    doc,           \* the document AST: a sequence of definitions
    rules,         \* the rule list: each rule is its visit_spread_fragments flag
    ruleIdx,       \* number of rules instantiated so far (the for loop's position)
    frames,        \* stack of active visit() calls, innermost last
    typeStack,     \* TypeInfo's context stack
    errors,        \* the accumulator
    fragments,     \* ValidationContext._fragments
    scans,         \* how often get_fragment scanned the definitions
    pc,            \* "call" | "run" | "done" | "assertion_error" | "recursion_error" | "off"
    startDepth,    \* TypeInfo's depth when the current rule's traversal began
    emptyLists,    \* how often a rule hook has returned the empty list
    lastCall,      \* what the most recent ValidationVisitor.enter/leave did
    call,          \* the arguments validate() was called with
    lookups,       \* the get_fragment calls made on the context directly
    \* ---- Lexer ----
    body,          \* source.body, a sequence of character codes
    prev_position, \* Lexer.prev_position
    lastResult,    \* what the most recent next_token call returned or raised
    tokens,        \* the tokens returned so far, in call order
    calls,         \* every next_token call so far, explicit positions included
    \* ---- callers of next_token, one step of the method at a time ----
    cursor,        \* prev_position of each Lexer instance
    thread,        \* each caller's position in next_token and its locals
    received       \* the tokens each caller has been returned

valVars == <<doc, rules, ruleIdx, frames, typeStack, errors, fragments, scans,
             pc, startDepth, emptyLists, lastCall, call, lookups>>
lexVars == <<body, prev_position, lastResult, tokens, calls, cursor, thread,
             received>>
vars    == <<mode, valVars, lexVars>>

-----------------------------------------------------------------------------
(* Bounds of the model.                                                    *)

\* Longest rule list handed to validate().
MaxRules == 2
\* A rule reports errors only while the accumulator holds fewer than this.
MaxErrors == 2
\* The interpreter's recursion limit, in nested visit() calls.
MaxDepth == 3
\* A run's rule hooks return the empty list at most this often.
MaxEmptyLists == 1

-----------------------------------------------------------------------------
(* The documents.  A definition has a kind, a name and a list of           *)
(* selections; a selection is a Field or a FragmentSpread (which has a     *)
(* Name child).  A node is addressed by its path from the Document:        *)
(* <<>> the document, <<i>> definition i, <<i, j>> selection j of it,      *)
(* <<i, j, 1>> the Name of a spread.                                       *)

Op(n, s)   == [kind |-> "OperationDefinition", name |-> n, sels |-> s]
Frag(n, s) == [kind |-> "FragmentDefinition", name |-> n, sels |-> s]
Field      == [kind |-> "Field", name |-> "f"]
Spread(n)  == [kind |-> "FragmentSpread", name |-> n]

Documents ==
    { << Op("Q", <<Spread("A")>>), Frag("A", <<Field>>) >>,
      << Frag("A", <<Field>>), Op("Q", <<Spread("A")>>) >>,
      << Op("Q", <<Spread("A")>>), Frag("A", <<Spread("A")>>) >>,
      << Op("Q", <<Spread("B"), Field>>) >>,
      << Op("A", <<Spread("A")>>), Frag("A", <<Field>>), Frag("A", <<>>) >> }

NodeKind(d, p) ==
    CASE Len(p) = 0 -> "Document"
      [] Len(p) = 1 -> d[p[1]].kind
      [] Len(p) = 2 -> d[p[1]].sels[p[2]].kind
      [] OTHER      -> "Name"

NodeName(d, p) ==
    CASE Len(p) = 1 -> d[p[1]].name
      [] Len(p) = 2 -> d[p[1]].sels[p[2]].name
      [] OTHER      -> ""

NumChildren(d, p) ==
    CASE Len(p) = 0 -> Len(d)
      [] Len(p) = 1 -> Len(d[p[1]].sels)
      [] Len(p) = 2 -> IF d[p[1]].sels[p[2]].kind = "FragmentSpread" THEN 1 ELSE 0
      [] OTHER      -> 0

\* The key under which the engine reaches a child: its index in the list that
\* holds it (definitions, selections), or the attribute name.
NoKey == [tag |-> "none", idx |-> 0]
ChildKey(p) ==
    IF Len(p) = 3 THEN [tag |-> "attr", idx |-> 0]
                  ELSE [tag |-> "index", idx |-> p[Len(p)] - 1]

\* Python's truth value of a key: None and 0 are false.
KeyTruthy(k) == k.tag = "attr" \/ (k.tag = "index" /\ k.idx # 0)

-----------------------------------------------------------------------------
(* What a rule's enter/leave hook returns: None (continue), False (skip),  *)
(* one GraphQLError, or a list of GraphQLErrors.                           *)

RNone     == [tag |-> "None",  errs |-> <<>>]
RFalse    == [tag |-> "False", errs |-> <<>>]
RError(e) == [tag |-> "Error", errs |-> <<e>>]
RList(es) == [tag |-> "List",  errs |-> es]

Err(r, n, h, i) == [rule |-> r, node |-> n, hook |-> h, i |-> i]

\* The results the rule r may return from hook h on node n, with `room` errors
\* left before the accumulator's bound and `empties` empty lists left.
RuleResults(r, n, h, room, empties) ==
    {RNone, RFalse}
      \cup (IF empties >= 1 THEN {RList(<<>>)} ELSE {})
      \cup (IF room >= 1 THEN {RError(Err(r, n, h, 1))} ELSE {})
      \cup (IF room >= 2 THEN {RList(<<Err(r, n, h, 1), Err(r, n, h, 2)>>)} ELSE {})

\* Python's truth value of a hook result: None, False and [] are false.
Truthy(res) == res.tag = "Error" \/ (res.tag = "List" /\ res.errs # <<>>)

is_error(value) == value.tag \in {"Error", "List"}

append(arr, items) ==
    IF items.tag = "List" THEN arr \o items.errs ELSE Append(arr, items.errs[1])

-----------------------------------------------------------------------------
(* ValidationContext.get_fragment.                                         *)

NameUniverse == {"A", "B", "Q"}

NoFragments == [built |-> FALSE, map |-> [n \in NameUniverse |-> 0]]

\* A loop that keeps the first FragmentDefinition of a name.
RECURSIVE ScanDefinitionsFirstWins(_, _, _)
ScanDefinitionsFirstWins(d, i, m) ==
    IF i > Len(d) THEN m
    ELSE ScanDefinitionsFirstWins(d, i + 1,
            IF d[i].kind = "FragmentDefinition" /\ m[d[i].name] = 0
               THEN [m EXCEPT ![d[i].name] = i] ELSE m)

\* The loop over the document's definitions, from statement i on: a later
\* FragmentDefinition of the same name replaces an earlier one.
RECURSIVE ScanDefinitions(_, _, _)
ScanDefinitions(d, i, m) ==
    IF i > Len(d) THEN m
    ELSE ScanDefinitions(d, i + 1,
            IF d[i].kind = "FragmentDefinition"
               THEN [m EXCEPT ![d[i].name] = i] ELSE m)

\* A lookup that tests the cache by truth value (`if not fragments`): an empty
\* map counts as not built.
get_fragmentIfEmpty(fr, sc, name) ==
    LET full == fr.built /\ \E n \in NameUniverse : fr.map[n] # 0
        fr1  == IF full THEN fr
                ELSE [built |-> TRUE, map |-> ScanDefinitions(doc, 1, NoFragments.map)]
        sc1  == IF full THEN sc ELSE sc + 1
    IN  [value |-> fr1.map[name], fr |-> fr1, sc |-> sc1]

\* Returns the definition's index (0: None), the cache and the scan count after.
get_fragment(fr, sc, name) ==
    LET fr1 == IF fr.built THEN fr
               ELSE [built |-> TRUE, map |-> ScanDefinitions(doc, 1, NoFragments.map)]
        sc1 == IF fr.built THEN sc ELSE sc + 1
    IN  [value |-> fr1.map[name], fr |-> fr1, sc |-> sc1]

-----------------------------------------------------------------------------
(* TypeInfo: enter pushes the node's context, leave pops it.               *)

TypeInfoEnter(ts, n) == Append(ts, n)
TypeInfoLeave(ts, n) == IF ts = <<>> THEN ts ELSE SubSeq(ts, 1, Len(ts) - 1)

-----------------------------------------------------------------------------
(* ValidationVisitor.enter and ValidationVisitor.leave, as functions of    *)
(* the node, the key, the rule's flag, the rule's result and the shared    *)
(* state.  `frag` is the definition visit(fragment, self) is called on     *)
(* (0: no such call).                                                      *)

SkipsDefinition(n, key, opted) ==
    NodeKind(doc, n) = "FragmentDefinition" /\ KeyTruthy(key) /\ opted

Records(result) == Truthy(result) /\ is_error(result)

\* A test that leaves out the rule's visit_spread_fragments flag.
InlinesSpreadAnyRule(n, opted, result) ==
    result = RNone /\ NodeKind(doc, n) = "FragmentSpread"

\* if result is None and self.visit_spread_fragments
\*    and isinstance(node, FragmentSpread)
InlinesSpread(n, opted, result) ==
    result = RNone /\ opted /\ NodeKind(doc, n) = "FragmentSpread"

enter(n, key, opted, res, ts, errs, fr, sc) ==
    LET ts1 == TypeInfoEnter(ts, n) IN
    IF SkipsDefinition(n, key, opted)
    THEN [ret |-> RFalse, called |-> FALSE, ts |-> ts1, errs |-> errs,
          frag |-> 0, fr |-> fr, sc |-> sc]
    ELSE
      LET errs1  == IF Records(res) THEN append(errs, res) ELSE errs
          result == IF Records(res) THEN RFalse ELSE res
          look   == InlinesSpread(n, opted, result)
          gf     == get_fragment(fr, sc, NodeName(doc, n))
          ts2    == IF result = RFalse THEN TypeInfoLeave(ts1, n) ELSE ts1
      IN  [ret |-> result, called |-> TRUE, ts |-> ts2, errs |-> errs1,
           frag |-> IF look THEN gf.value ELSE 0,
           fr |-> IF look THEN gf.fr ELSE fr,
           sc |-> IF look THEN gf.sc ELSE sc]

leave(n, res, ts, errs) ==
    LET errs1  == IF Records(res) THEN append(errs, res) ELSE errs
        result == IF Records(res) THEN RFalse ELSE res
    IN  [ret |-> result, called |-> TRUE, ts |-> TypeInfoLeave(ts, n),
         errs |-> errs1]

-----------------------------------------------------------------------------
(* The traversal engine, visit(root, visitor): depth first, enter before   *)
(* the children and leave after them; the root is entered with no key;     *)
(* only a None from enter descends, and a node whose enter did not descend *)
(* gets no leave.  A frame is one active visit() call: the root, and the   *)
(* entered nodes whose children are being walked with the next child of    *)
(* each.                                                                   *)

NewFrame(root) == [root |-> root, started |-> FALSE, stack |-> <<>>]

Top(s) == s[Len(s)]
Pop(s) == SubSeq(s, 1, Len(s) - 1)
ReplaceTop(s, x) == [s EXCEPT ![Len(s)] = x]

IsEnter(f) ==
    \/ ~f.started
    \/ f.stack # <<>> /\ Top(f.stack).next <= NumChildren(doc, Top(f.stack).node)

IsLeave(f) ==
    f.started /\ f.stack # <<>>
      /\ Top(f.stack).next > NumChildren(doc, Top(f.stack).node)

Complete(f) == f.started /\ f.stack = <<>>

EnterNode(f) ==
    IF ~f.started THEN f.root
    ELSE Append(Top(f.stack).node, Top(f.stack).next)

EnterKey(f) == IF ~f.started THEN NoKey ELSE ChildKey(EnterNode(f))

AfterEnter(f, n, ret) ==
    LET f1 == IF ~f.started THEN [f EXCEPT !.started = TRUE]
              ELSE [f EXCEPT !.stack = ReplaceTop(@, [Top(@) EXCEPT !.next = @ + 1])]
    IN  IF ret = RNone
        THEN [f1 EXCEPT !.stack = Append(@, [node |-> n, next |-> 1])]
        ELSE f1

AfterLeave(f) == [f EXCEPT !.stack = Pop(@)]

\* A visit() whose walk is over returns to its caller.
RECURSIVE Unwind(_)
Unwind(fs) ==
    IF fs # <<>> /\ Complete(Top(fs)) THEN Unwind(Pop(fs)) ELSE fs

-----------------------------------------------------------------------------
(* validate(schema, ast, rules) and visit_using_rules.                     *)

RuleLists == UNION {[1..k -> BOOLEAN] : k \in 0..MaxRules}

\* The arguments of validate(schema, ast, rules).  A schema argument is None,
\* another false value, an object that is no GraphQLSchema, or a GraphQLSchema;
\* ast and rules are None or a value.
SchemaValues == {"None", "Falsy", "Object", "GraphQLSchema"}
PyNone  == [none |-> TRUE, value |-> <<>>]
Some(v) == [none |-> FALSE, value |-> v]
Arguments(schema, ast, rs) == [schema |-> schema, ast |-> ast, rules |-> rs]

NoCall == [fn |-> "none", rule |-> 0, node |-> <<>>, key |-> NoKey,
           called |-> FALSE, res |-> RNone, ret |-> RNone, before |-> <<>>,
           frag |-> 0, depth |-> 0]

LexIdle ==
    /\ body = <<>>
    /\ prev_position = 0
    /\ lastResult = [ok |-> FALSE, tok |-> [kind |-> "none", start |-> 0, end |-> 0,
                                          valued |-> FALSE, value |-> <<>>],
                     pos |-> 0, msg |-> "", from |-> 0, called |-> FALSE]
    /\ tokens = <<>>
    /\ calls = <<>>
    /\ cursor = <<>>
    /\ thread = <<>>
    /\ received = <<>>

InitValidate ==
    /\ mode = "validate"
    /\ doc \in Documents
    /\ rules \in RuleLists
    /\ ruleIdx = 0
    /\ frames = <<>>
    /\ typeStack = <<>>
    /\ errors = <<>>
    /\ fragments = NoFragments
    /\ scans = 0
    /\ pc = "run"
    /\ startDepth = 0
    /\ emptyLists = 0
    /\ lastCall = NoCall
    /\ call = Arguments("GraphQLSchema", Some(doc), Some(rules))
    /\ lookups = <<>>
    /\ LexIdle

\* for rule in rules: instance = rule(context); visit(ast, ValidationVisitor(...))
BeginRule ==
    /\ mode = "validate" /\ pc = "run"
    /\ frames = <<>> /\ ruleIdx < Len(rules)
    /\ ruleIdx' = ruleIdx + 1
    /\ frames' = <<NewFrame(<<>>)>>
    /\ startDepth' = Len(typeStack)
    /\ UNCHANGED <<mode, doc, rules, typeStack, errors, fragments, scans, pc,
                   emptyLists, lastCall, call, lookups, lexVars>>

\* return errors
Return ==
    /\ mode = "validate" /\ pc = "run"
    /\ frames = <<>> /\ ruleIdx = Len(rules)
    /\ pc' = "done"
    /\ UNCHANGED <<mode, doc, rules, ruleIdx, frames, typeStack, errors,
                   fragments, scans, startDepth, emptyLists, lastCall, call,
                   lookups, lexVars>>

\* The engine calls ValidationVisitor.enter on the next node.  When enter calls
\* visit(fragment, self), a new frame is pushed, or the recursion limit is hit.
VisitorEnter ==
    /\ mode = "validate" /\ pc = "run"
    /\ frames # <<>> /\ IsEnter(Top(frames))
    /\ LET f == Top(frames)
           n == EnterNode(f)
           k == EnterKey(f)
       IN  \E res \in RuleResults(ruleIdx, n, "enter", MaxErrors - Len(errors),
                                  MaxEmptyLists - emptyLists) :
             LET e  == enter(n, k, rules[ruleIdx], res, typeStack, errors,
                             fragments, scans)
                 fs == ReplaceTop(frames, AfterEnter(f, n, e.ret))
             IN  /\ typeStack' = e.ts
                 /\ errors' = e.errs
                 /\ emptyLists' = IF e.called /\ res = RList(<<>>)
                                   THEN emptyLists + 1 ELSE emptyLists
                 /\ fragments' = e.fr
                 /\ scans' = e.sc
                 /\ lastCall' = [fn |-> "enter", rule |-> ruleIdx, node |-> n,
                                 key |-> k, called |-> e.called,
                                 res |-> IF e.called THEN res ELSE RNone,
                                 ret |-> e.ret, before |-> errors,
                                 frag |-> e.frag, depth |-> Len(typeStack)]
                 /\ IF e.frag = 0
                    THEN frames' = Unwind(fs) /\ pc' = pc
                    ELSE IF Len(frames) < MaxDepth
                         THEN frames' = Append(fs, NewFrame(<<e.frag>>)) /\ pc' = pc
                         ELSE frames' = fs /\ pc' = "recursion_error"
    /\ UNCHANGED <<mode, doc, rules, ruleIdx, startDepth, call, lookups, lexVars>>

\* The engine calls ValidationVisitor.leave on a node whose children are done.
VisitorLeave ==
    /\ mode = "validate" /\ pc = "run"
    /\ frames # <<>> /\ IsLeave(Top(frames))
    /\ LET f == Top(frames)
           n == Top(f.stack).node
           k == IF Len(f.stack) = 1 THEN NoKey ELSE ChildKey(n)
       IN  \E res \in RuleResults(ruleIdx, n, "leave", MaxErrors - Len(errors),
                                  MaxEmptyLists - emptyLists) :
             LET e == leave(n, res, typeStack, errors)
             IN  /\ typeStack' = e.ts
                 /\ errors' = e.errs
                 /\ emptyLists' = IF res = RList(<<>>)
                                   THEN emptyLists + 1 ELSE emptyLists
                 /\ lastCall' = [fn |-> "leave", rule |-> ruleIdx, node |-> n,
                                 key |-> k, called |-> TRUE, res |-> res,
                                 ret |-> e.ret, before |-> errors,
                                 frag |-> 0, depth |-> Len(typeStack)]
                 /\ frames' = Unwind(ReplaceTop(frames, AfterLeave(f)))
    /\ UNCHANGED <<mode, doc, rules, ruleIdx, fragments, scans, pc, startDepth,
                   call, lookups, lexVars>>

NextValidate == BeginRule \/ VisitorEnter \/ VisitorLeave \/ Return

SpecValidate == InitValidate /\ [][NextValidate]_vars

-----------------------------------------------------------------------------
(* Claims about validate().                                                *)

\* C1: whenever ValidationVisitor.enter returns "do not descend" (False), the
\* forced skip of a keyed FragmentDefinition included, it has popped the
\* context it pushed: TypeInfo's depth is what it was before the call.
C1_EnterPopsWhenNotDescending ==
    (lastCall.fn = "enter" /\ lastCall.ret = RFalse)
        => Len(typeStack) = lastCall.depth

\* C2: validate() terminates on every document and rule set: the nested
\* visit(fragment, self) calls never reach the recursion limit.
C2_RecursionIsBounded == pc # "recursion_error"

\* C3: for a rule that opted into spread-fragment visiting, enter on a
\* FragmentDefinition reached under a key (any index of the definitions list)
\* does not call the rule and returns "do not descend".
C3_KeyedDefinitionNeverEntered ==
    (/\ lastCall.fn = "enter"
     /\ NodeKind(doc, lastCall.node) = "FragmentDefinition"
     /\ lastCall.key.tag = "index"
     /\ rules[lastCall.rule])
        => (~lastCall.called /\ lastCall.ret = RFalse)

\* C4: when the rule's hook returns an error or a list of errors of any
\* length, exactly those errors are appended in order and the visitor
\* returns False.
C4_ErrorsRecordedAndFalse ==
    (lastCall.fn \in {"enter", "leave"} /\ lastCall.called
       /\ is_error(lastCall.res))
        => (/\ errors = lastCall.before \o lastCall.res.errs
            /\ lastCall.ret = RFalse)

\* C5: whenever validate() has ended, every rule of the list has been
\* instantiated and its traversal has run to its end.
C5_EveryRuleTraversed ==
    pc \in {"done", "recursion_error"}
        => (ruleIdx = Len(rules) /\ frames = <<>>)

-----------------------------------------------------------------------------
(* validate(schema, ast, [rule]): one rule's traversal of the document,    *)
(* with the fragments it inlines at their spreads.                         *)

InitOneRule == InitValidate /\ Len(rules) = 1

SpecOneRule == InitOneRule /\ [][NextValidate]_vars

\* The last FragmentDefinition named n among the definitions of d (0: none).
LastFragmentNamed(d, n) ==
    LET S == {k \in 1..Len(d) : d[k].kind = "FragmentDefinition" /\ d[k].name = n}
    IN  IF S = {} THEN 0 ELSE CHOOSE k \in S : \A h \in S : h <= k

\* C13: the rule's enter on a FragmentSpread starts a visit of the fragment
\* definition the spread names, through the same visitor, exactly when the
\* rule opted in, its enter returned None and the name is defined in the
\* document; that visit is the one the engine runs next, and for as long as it
\* runs no child of the spread has been entered and the spread has not been
\* left; every visit below the document's own is such an inlined visit; the
\* errors a hook reports, inside an inlined visit too, go to the one
\* accumulator.
C13_SpreadInlinesFragment ==
    /\ (lastCall.fn = "enter" /\ lastCall.called
          /\ NodeKind(doc, lastCall.node) = "FragmentSpread") =>
          LET def == LastFragmentNamed(doc, NodeName(doc, lastCall.node))
              inl == rules[lastCall.rule] /\ lastCall.res = RNone /\ def # 0
          IN  /\ lastCall.frag = IF inl THEN def ELSE 0
              /\ (inl /\ pc = "run") =>
                    /\ Len(frames) >= 2
                    /\ Top(frames) = NewFrame(<<def>>)
                    /\ Top(frames[Len(frames) - 1].stack)
                          = [node |-> lastCall.node, next |-> 1]
    /\ (lastCall.fn = "enter" /\ NodeKind(doc, lastCall.node) # "FragmentSpread")
          => lastCall.frag = 0
    /\ frames # <<>> => frames[1].root = <<>>
    /\ \A k \in 1..(Len(frames) - 1) :
          /\ frames[k].started /\ frames[k].stack # <<>>
          /\ NodeKind(doc, Top(frames[k].stack).node) = "FragmentSpread"
          /\ Top(frames[k].stack).next = 1
          /\ rules[ruleIdx]
          /\ frames[k + 1].root
                = <<LastFragmentNamed(doc, NodeName(doc, Top(frames[k].stack).node))>>
    /\ (lastCall.called /\ Records(lastCall.res))
          => errors = lastCall.before \o lastCall.res.errs

\* The fragment was visited at its spread and an error of its field recorded
\* there; the engine then enters the spread's own child.
C13_Witness ==
    /\ Len(doc) = 2 /\ doc[2].kind = "FragmentDefinition" /\ rules[1]
    /\ lastCall.fn = "enter" /\ lastCall.node = <<1, 1, 1>>
    /\ errors # <<>> /\ errors[1].node = <<2, 1>>
    /\ Len(frames) = 1

-----------------------------------------------------------------------------
(* A ValidationContext over a document, and get_fragment called on it       *)
(* directly, as rules do, with any names.                                  *)

\* The number of get_fragment calls made on one context.
MaxLookups == 3

InitContext ==
    /\ mode = "context"
    /\ doc \in Documents
    /\ rules = <<>>
    /\ ruleIdx = 0
    /\ frames = <<>>
    /\ typeStack = <<>>
    /\ errors = <<>>
    /\ fragments = NoFragments
    /\ scans = 0
    /\ pc = "off"
    /\ startDepth = 0
    /\ emptyLists = 0
    /\ lastCall = NoCall
    /\ call = Arguments("GraphQLSchema", Some(doc), PyNone)
    /\ lookups = <<>>
    /\ LexIdle

\* context.get_fragment(name)
GetFragment ==
    /\ mode = "context"
    /\ Len(lookups) < MaxLookups
    /\ \E name \in NameUniverse :
         LET gf == get_fragment(fragments, scans, name)
         IN  /\ fragments' = gf.fr
             /\ scans' = gf.sc
             /\ lookups' = Append(lookups, [name |-> name, value |-> gf.value,
                                            scans |-> gf.sc, map |-> gf.fr.map])
    /\ UNCHANGED <<mode, doc, rules, ruleIdx, frames, typeStack, errors, pc,
                   startDepth, emptyLists, lastCall, call, lexVars>>

NextContext == GetFragment

SpecContext == InitContext /\ [][NextContext]_vars

\* C11: in any sequence of get_fragment calls on one context, the definitions
\* are scanned exactly once, during the first call; the name-to-definition
\* map is the same after every call, and two calls with the same name return
\* the same definition (or both nothing).
C11_FragmentsScannedOnce ==
    /\ scans = (IF lookups = <<>> THEN 0 ELSE 1)
    /\ \A i \in 1..Len(lookups) :
         /\ lookups[i].scans = 1
         /\ lookups[i].map = lookups[1].map
         /\ \A j \in 1..Len(lookups) :
              lookups[i].name = lookups[j].name
                  => lookups[i].value = lookups[j].value

\* A defined name looked up twice, with an undefined name in between.
C11_Witness ==
    /\ Len(lookups) = 3
    /\ lookups[1].name = lookups[3].name
    /\ lookups[1].value # 0 /\ lookups[3].value = lookups[1].value
    /\ lookups[2].value = 0
    /\ scans = 1

\* C20: get_fragment(name) returns, on every call, the FragmentDefinition of
\* that name that comes last in the definitions list; a definition that is not
\* a FragmentDefinition is never returned, whatever its name.
C20_LastDefinitionWins ==
    \A i \in 1..Len(lookups) :
        /\ lookups[i].value = LastFragmentNamed(doc, lookups[i].name)
        /\ lookups[i].value # 0
              => doc[lookups[i].value].kind = "FragmentDefinition"

\* An operation and two fragments share a name: the second fragment is
\* returned, twice.
C20_Witness ==
    /\ Len(lookups) >= 2 /\ Len(doc) = 3
    /\ doc[1].kind = "OperationDefinition" /\ doc[1].name = lookups[1].name
    /\ doc[2].kind = "FragmentDefinition" /\ doc[2].name = lookups[1].name
    /\ lookups[1].value = 3 /\ lookups[2].value = 3

-----------------------------------------------------------------------------
(* validate(schema, ast, rules=None) from its entry: the three assertions, *)
(* the choice of the rule list, and the hand-over to visit_using_rules.    *)

\* The module's default rule list, by class name, in order.
specified_rules ==
    << "UniqueOperationNames", "LoneAnonymousOperation", "KnownTypeNames",
       "FragmentsOnCompositeTypes", "VariablesAreInputTypes", "ScalarLeafs",
       "FieldsOnCorrectType", "UniqueFragmentNames", "KnownFragmentNames",
       "NoUnusedFragments", "PossibleFragmentSpreads", "NoFragmentCycles",
       "NoUndefinedVariables", "NoUnusedVariables", "KnownDirectives",
       "KnownArgumentNames", "UniqueArgumentNames", "ArgumentsOfCorrectType",
       "ProvidedNonNullArguments", "DefaultValuesOfCorrectType",
       "VariablesInAllowedPosition", "OverlappingFieldsCanBeMerged" >>

\* The rule classes live in the rules module; which of them set
\* visit_spread_fragments is decided there.  Either none of the default rules
\* does, or the two that follow variables through fragment spreads do.
SpreadVisitingChoices == {{}, {"NoUndefinedVariables", "NoUnusedVariables"}}

\* A rule list as the traversal sees it: each rule's visit_spread_fragments.
SpecifiedFlagLists ==
    { [i \in 1..Len(specified_rules) |-> specified_rules[i] \in S] :
          S \in SpreadVisitingChoices }

\* The document validate() is entered with: a Document object, which is true
\* whatever it holds; this one holds no definitions.
EntryDocument == <<>>

\* Python's truth value of the schema argument.
SchemaTruthy(schema) == schema \in {"Object", "GraphQLSchema"}

\* assert schema; assert ast; assert isinstance(schema, GraphQLSchema)
AssertionFails(schema, ast) ==
    \/ ~SchemaTruthy(schema)
    \/ ast.none
    \/ schema # "GraphQLSchema"

RulesUsedIfFalsy(rs, defaults) ==
    IF rs.none \/ rs.value = <<>> THEN defaults ELSE rs.value

\* if rules is None: rules = specified_rules
RulesUsed(rs, defaults) ==
    IF rs.none THEN defaults ELSE rs.value

InitEntry ==
    /\ mode = "validate"
    /\ doc = <<>>
    /\ rules = <<>>
    /\ ruleIdx = 0
    /\ frames = <<>>
    /\ typeStack = <<>>
    /\ errors = <<>>
    /\ fragments = NoFragments
    /\ scans = 0
    /\ pc = "call"
    /\ startDepth = 0
    /\ emptyLists = 0
    /\ lastCall = NoCall
    /\ \E schema \in SchemaValues :
       \E ast \in {PyNone, Some(EntryDocument)} :
       \E rs \in {PyNone} \cup {Some(r) : r \in RuleLists} :
           call = Arguments(schema, ast, rs)
    /\ lookups = <<>>
    /\ LexIdle

\* validate(schema, ast, rules): a failed assertion ends the call; otherwise
\* visit_using_rules starts with a new TypeInfo, context and accumulator.
Validate ==
    /\ mode = "validate" /\ pc = "call"
    /\ IF AssertionFails(call.schema, call.ast)
       THEN /\ pc' = "assertion_error"
            /\ UNCHANGED <<doc, rules>>
       ELSE /\ pc' = "run"
            /\ doc' = call.ast.value
            /\ \E defaults \in SpecifiedFlagLists :
                 rules' = RulesUsed(call.rules, defaults)
    /\ UNCHANGED <<mode, ruleIdx, frames, typeStack, errors, fragments, scans,
                   startDepth, emptyLists, lastCall, call, lookups, lexVars>>

NextEntry == Validate \/ NextValidate

SpecEntry == InitEntry /\ [][NextEntry]_vars

\* C16: validate() entered without a schema, without a document, or with a
\* schema that is no GraphQLSchema fails at once: no TypeInfo, context or
\* accumulator is built, no rule is instantiated, no node is visited, and the
\* call never returns an error sequence.  Otherwise the traversal runs over the
\* given document with the default list of 22 rules when rules is omitted, and
\* with the given list, the empty one included, when it is supplied.
C16_EntryAssertsAndChoosesRules ==
    /\ (pc # "call" /\ AssertionFails(call.schema, call.ast))
          => pc = "assertion_error"
    /\ pc = "assertion_error"
          => /\ AssertionFails(call.schema, call.ast)
             /\ doc = <<>> /\ rules = <<>>
             /\ ruleIdx = 0 /\ frames = <<>> /\ lastCall = NoCall
             /\ typeStack = <<>> /\ fragments = NoFragments /\ scans = 0
             /\ errors = <<>>
    /\ pc \in {"run", "done", "recursion_error"}
          => /\ doc = call.ast.value
             /\ call.rules.none
                   => (rules \in SpecifiedFlagLists
                         /\ Len(rules) = Len(specified_rules))
             /\ ~call.rules.none => rules = call.rules.value

\* A schema object that is no GraphQLSchema, with a document and an explicit
\* rule list: the call has failed.
C16_Witness ==
    /\ pc = "assertion_error"
    /\ call.schema = "Object" /\ ~call.ast.none
    /\ ~call.rules.none /\ Len(call.rules.value) = 2

\* validate(schema, ast) has returned after all 22 default rules.
C16_DefaultsRun ==
    pc = "done" /\ call.rules.none /\ ruleIdx = Len(specified_rules)

\* validate(schema, ast, []) has returned without instantiating a rule.
C16_EmptyListRun ==
    pc = "done" /\ ~call.rules.none /\ call.rules.value = <<>> /\ ruleIdx = 0

-----------------------------------------------------------------------------
(* The lexer.  A source body is a sequence of character codes; Python's    *)
(* offsets are 0-based.                                                    *)

char_code_at(s, pos) == IF 0 <= pos /\ pos < Len(s) THEN s[pos + 1] ELSE 0

\* body[a:b], with Python's clamping of the slice to the string.
Slice(s, a, b) ==
    LET hi == IF b < Len(s) THEN b ELSE Len(s)
    IN  IF a >= hi THEN <<>> ELSE SubSeq(s, a + 1, hi)

Token(kind, start, end) ==
    [kind |-> kind, start |-> start, end |-> end, valued |-> FALSE, value |-> <<>>]
TokenV(kind, start, end, value) ==
    [kind |-> kind, start |-> start, end |-> end, valued |-> TRUE, value |-> value]

\* What read_token does: return a token, or raise LanguageError(source, pos, msg).
Returned(tok)    == [ok |-> TRUE, tok |-> tok, pos |-> 0, msg |-> ""]
Raised(pos, msg) == [ok |-> FALSE, tok |-> Token("none", 0, 0), pos |-> pos, msg |-> msg]

PUNCT_CODE_TO_KIND(code) ==
    CASE code = 33  -> "BANG"
      [] code = 36  -> "DOLLAR"
      [] code = 40  -> "PAREN_L"
      [] code = 41  -> "PAREN_R"
      [] code = 58  -> "COLON"
      [] code = 61  -> "EQUALS"
      [] code = 64  -> "AT"
      [] code = 91  -> "BRACKET_L"
      [] code = 93  -> "BRACKET_R"
      [] code = 123 -> "BRACE_L"
      [] code = 124 -> "PIPE"
      [] code = 125 -> "BRACE_R"
      [] OTHER      -> "None"

IsLineEnd(code) == code = 0 \/ code \in {10, 13, 8232, 8233}

\* The inner loop of position_after_whitespace: to the end of a comment.
RECURSIVE SkipComment(_, _)
SkipComment(b, position) ==
    IF position < Len(b) /\ ~IsLineEnd(char_code_at(b, position))
    THEN SkipComment(b, position + 1)
    ELSE position

RECURSIVE position_after_whitespace(_, _)
position_after_whitespace(b, position) ==
    IF position < Len(b)
    THEN LET code == char_code_at(b, position) IN
         IF code \in {32, 44, 160, 8232, 8233} \/ (code > 8 /\ code < 14)
         THEN position_after_whitespace(b, position + 1)
         ELSE IF code = 35
              THEN position_after_whitespace(b, SkipComment(b, position + 1))
              ELSE position
    ELSE position

\* A digit test that leaves out '0'.
IsDigitNoZero(code) == 49 <= code /\ code <= 57

IsDigit(code) == 48 <= code /\ code <= 57

\* while 48 <= code <= 57: position += 1
RECURSIVE SkipDigits(_, _)
SkipDigits(b, position) ==
    IF IsDigit(char_code_at(b, position)) THEN SkipDigits(b, position + 1)
    ELSE position

\* The exponent part of read_number, entered with `position` at the 'e'.
ReadExponent(b, start, position) ==
    LET p1 == position + 1
        p2 == IF char_code_at(b, p1) = 45 THEN p1 + 1 ELSE p1
    IN  IF IsDigit(char_code_at(b, p2))
        THEN LET p3 == SkipDigits(b, p2 + 1)
             IN  Returned(TokenV("FLOAT", start, p3, Slice(b, start, p3)))
        ELSE Raised(p2, "Invalid number")

\* The fractional part of read_number, entered with `position` at the '.'; the
\* exponent is looked for only here, after the fraction's digits.
ReadFraction(b, start, position) ==
    LET p1 == position + 1 IN
    IF IsDigit(char_code_at(b, p1))
    THEN LET p2 == SkipDigits(b, p1 + 1) IN
         IF char_code_at(b, p2) = 101
         THEN ReadExponent(b, start, p2)
         ELSE Returned(TokenV("FLOAT", start, p2, Slice(b, start, p2)))
    ELSE Raised(p1, "Invalid number")

read_number(b, start, first_code) ==
    LET p1 == IF first_code = 45 THEN start + 1 ELSE start
        c1 == IF first_code = 45 THEN char_code_at(b, p1) ELSE first_code
    IN  IF c1 = 48 \/ (49 <= c1 /\ c1 <= 57)
        THEN LET p2 == IF c1 = 48 THEN p1 + 1 ELSE SkipDigits(b, p1 + 1) IN
             IF char_code_at(b, p2) = 46
             THEN ReadFraction(b, start, p2)
             ELSE Returned(TokenV("INT", start, p2, Slice(b, start, p2)))
        ELSE Raised(p1, "Invalid number")

\* ESCAPED_CHAR_CODES.get(code): the escaped character's code, -1 for None.
ESCAPED_CHAR_CODES(code) ==
    CASE code = 34  -> 34
      [] code = 47  -> 47
      [] code = 92  -> 92
      [] code = 98  -> 8
      [] code = 102 -> 12
      [] code = 110 -> 10
      [] code = 114 -> 13
      [] code = 116 -> 9
      [] OTHER      -> -1

\* A conversion that uses the upper-case offset for a-f too.
char2hexUpperOffset(a) ==
    IF 48 <= a /\ a <= 57 THEN a - 48
    ELSE IF (65 <= a /\ a <= 70) \/ (97 <= a /\ a <= 102) THEN a - 55
    ELSE -1

char2hex(a) ==
    IF 48 <= a /\ a <= 57 THEN a - 48
    ELSE IF 65 <= a /\ a <= 70 THEN a - 55
    ELSE IF 97 <= a /\ a <= 102 THEN a - 87
    ELSE -1

\* Python's | on integers, computed on two's complement words wide enough for
\* the operands uni_char_code gives it.
RECURSIVE OrBits(_, _, _)
OrBits(x, y, n) ==
    IF n = 0 THEN 0
    ELSE (IF x % 2 = 1 \/ y % 2 = 1 THEN 1 ELSE 0)
           + 2 * OrBits(x \div 2, y \div 2, n - 1)
BitOr(x, y) ==
    LET w == 2 ^ 20
        u == OrBits(x % w, y % w, 20)
    IN  IF u >= w \div 2 THEN u - w ELSE u

uni_char_code(a, b, c, d) ==
    BitOr(BitOr(BitOr(char2hex(a) * 4096, char2hex(b) * 256),
                char2hex(c) * 16), char2hex(d))

\* The while loop of read_string, from one evaluation of its condition on.
\* `code` is -1 while it is still None.
RECURSIVE StringLoop(_, _, _, _, _)
StringLoop(b, position, chunk_start, code, value) ==
    IF position >= Len(b)
    THEN [err |-> "", position |-> position, chunk_start |-> chunk_start,
          code |-> code, value |-> value]
    ELSE
      LET c == char_code_at(b, position) IN
      IF c = 0 \/ c \in {34, 10, 13, 8232, 8233}
      THEN [err |-> "", position |-> position, chunk_start |-> chunk_start,
            code |-> c, value |-> value]
      ELSE IF c # 92
      THEN StringLoop(b, position + 1, chunk_start, c, value)
      ELSE
        LET pos1    == position + 1
            value1  == value \o Slice(b, chunk_start, pos1 - 1)
            c1      == char_code_at(b, pos1)
            escaped == ESCAPED_CHAR_CODES(c1)
            uni     == uni_char_code(char_code_at(b, pos1 + 1),
                                     char_code_at(b, pos1 + 2),
                                     char_code_at(b, pos1 + 3),
                                     char_code_at(b, pos1 + 4))
            bad     == [err |-> "Bad character escape sequence",
                        position |-> pos1, chunk_start |-> chunk_start,
                        code |-> c1, value |-> value1]
        IN  IF escaped # -1
            THEN StringLoop(b, pos1 + 1, pos1 + 1, c1, Append(value1, escaped))
            ELSE IF c1 = 117
                 THEN IF uni < 0 THEN bad
                      ELSE StringLoop(b, pos1 + 5, pos1 + 5, c1, Append(value1, uni))
                 ELSE bad

read_string(b, start) ==
    LET r == StringLoop(b, start + 1, start + 1, -1, <<>>) IN
    IF r.err # "" THEN Raised(r.position, r.err)
    ELSE IF r.code # 34 THEN Raised(r.position, "Unterminated string")
    ELSE Returned(TokenV("STRING", start, r.position + 1,
                         r.value \o Slice(b, r.chunk_start, r.position)))

IsNameStart(code) ==
    (65 <= code /\ code <= 90) \/ code = 95 \/ (97 <= code /\ code <= 122)

IsNameChar(code) == IsNameStart(code) \/ (48 <= code /\ code <= 57)

RECURSIVE NameEnd(_, _)
NameEnd(b, end) ==
    IF end # Len(b) /\ IsNameChar(char_code_at(b, end)) THEN NameEnd(b, end + 1)
    ELSE end

read_name(b, position) ==
    LET end == NameEnd(b, position + 1)
    IN  Returned(TokenV("NAME", position, end, Slice(b, position, end)))

\* A spread test that looks at one following character only.
IsSpreadAtOneDot(b, position) == char_code_at(b, position + 1) = 46

\* The test read_token makes on a '.': the next two characters are dots too.
IsSpreadAt(b, position) ==
    char_code_at(b, position + 1) = 46 /\ char_code_at(b, position + 2) = 46

read_token(b, from_position) ==
    LET position == position_after_whitespace(b, from_position)
        code     == char_code_at(b, position)
        kind     == PUNCT_CODE_TO_KIND(code)
    IN  IF position >= Len(b) THEN Returned(Token("EOF", position, position))
        ELSE IF kind # "None" THEN Returned(Token(kind, position, position + 1))
        ELSE IF code = 46 /\ IsSpreadAt(b, position)
             THEN Returned(Token("SPREAD", position, position + 3))
        ELSE IF code # 46 /\ IsNameStart(code) THEN read_name(b, position)
        ELSE IF code # 46 /\ (code = 45 \/ IsDigit(code))
             THEN read_number(b, position, code)
        ELSE IF code # 46 /\ code = 34 THEN read_string(b, position)
        ELSE Raised(position, "Unexpected character")

\* A cursor that is set to the token's start.
NextPositionStart(token) == token.start

\* self.prev_position = token.end
NextPosition(token) == token.end

\* A default that tests the argument by truth value
\* (`reset_position or self.prev_position`): offset 0 counts as not given.
ResetPositionFalsy(prev, reset_position) ==
    IF reset_position.none \/ reset_position.value = 0 THEN prev
    ELSE reset_position.value

\* if reset_position is None: reset_position = self.prev_position
ResetPosition(prev, reset_position) ==
    IF reset_position.none THEN prev ELSE reset_position.value

\* A cursor that a raised error moves to the error's offset.
CursorAfterRaise(prev, r) == IF r.ok THEN NextPosition(r.tok) ELSE r.pos

\* self.prev_position after the call: read_token's error propagates before the
\* assignment is reached.
CursorAfter(prev, r) == IF r.ok THEN NextPosition(r.tok) ELSE prev

\* Lexer.next_token(reset_position) on a lexer whose cursor is prev: the
\* position scanned from, what read_token did, and the cursor after.
next_token(b, prev, reset_position) ==
    LET from == ResetPosition(prev, reset_position)
        r    == read_token(b, from)
    IN  [r |-> r, from |-> from, prev_position |-> CursorAfter(prev, r)]

-----------------------------------------------------------------------------
(* Lexer(source) and repeated next_token() calls with no explicit          *)
(* position.                                                               *)

\* Longest body over the general alphabet, the number alphabet, the string
\* alphabet; and the calls made after the body's length is used up.
MaxLen == 3
MaxNumLen == 6
MaxStrLen == 4
ExtraCalls == 3

\* Longest body over the comment alphabet and over the alphabet of ignored
\* characters.
MaxSpaceLen == 4
MaxBlankLen == 2

GeneralChars == {10, 32, 33, 34, 35, 46, 49, 63, 92, 97}
NumberChars  == {45, 46, 48, 49, 101}
StringChars  == {10, 34, 92, 97}
\* NUL, tab, newline, space, '#', '1', U+2028.
SpaceChars   == {0, 9, 10, 32, 35, 49, 8232}
\* The ignored characters and their neighbours: 8..14, ',', NBSP, U+2028,
\* U+2029, with '#' and '1'.
BlankChars   == {8, 9, 11, 12, 13, 14, 35, 44, 49, 160, 8232, 8233}

SeqsUpTo(S, n) == UNION {[1..k -> S] : k \in 0..n}

\* Strings with one \uXXXX escape, "a\uXXXX..." : four hex digits from the
\* ends of the three ranges, or one character of the four replaced by a
\* neighbour of a range or by the quote; closed behind the escape after a
\* verbatim character or a \n escape, or cut off inside the escape.
HexDigits == {48, 57, 65, 70, 97, 102}
NonHex    == {34, 47, 58, 64, 71, 96, 103}
EscapeDigits ==
    [1..4 -> HexDigits]
      \cup { [g EXCEPT ![i] = c] :
                g \in {<<48, 48, 48, 48>>, <<102, 70, 57, 65>>},
                i \in 1..4, c \in NonHex }
EscapeSources ==
    { <<34, 97, 92, 117>> \o h \o t :
        h \in EscapeDigits, t \in {<<97, 34>>, <<92, 110, 34>>} }
      \cup { <<34, 97, 92, 117>> \o SubSeq(<<48, 102, 65>>, 1, k) : k \in 0..3 }

Sources ==
    SeqsUpTo(GeneralChars, MaxLen) \cup SeqsUpTo(NumberChars, MaxNumLen)
        \cup SeqsUpTo(StringChars, MaxStrLen)
        \cup SeqsUpTo(SpaceChars, MaxSpaceLen)
        \cup SeqsUpTo(BlankChars, MaxBlankLen)
        \cup EscapeSources

NoResult == [ok |-> FALSE, tok |-> Token("none", 0, 0), pos |-> 0, msg |-> "",
             from |-> 0, called |-> FALSE]

ValidateIdle ==
    /\ doc = <<>>
    /\ rules = <<>>
    /\ ruleIdx = 0
    /\ frames = <<>>
    /\ typeStack = <<>>
    /\ errors = <<>>
    /\ fragments = NoFragments
    /\ scans = 0
    /\ pc = "off"
    /\ startDepth = 0
    /\ emptyLists = 0
    /\ lastCall = NoCall
    /\ call = Arguments("None", PyNone, PyNone)
    /\ lookups = <<>>

InitLexer ==
    /\ mode = "lex"
    /\ body \in Sources
    /\ prev_position = 0
    /\ lastResult = NoResult
    /\ tokens = <<>>
    /\ calls = <<>>
    /\ cursor = <<>>
    /\ thread = <<>>
    /\ received = <<>>
    /\ ValidateIdle

\* token = read_token(self.source, self.prev_position); a raised error leaves
\* prev_position as it was.
NextToken ==
    /\ mode = "lex"
    /\ Len(tokens) < Len(body) + ExtraCalls
    /\ LET c == next_token(body, prev_position, PyNone) IN
         /\ lastResult' = [ok |-> c.r.ok, tok |-> c.r.tok, pos |-> c.r.pos,
                           msg |-> c.r.msg, from |-> c.from, called |-> TRUE]
         /\ prev_position' = c.prev_position
         /\ tokens' = IF c.r.ok THEN Append(tokens, c.r.tok) ELSE tokens
    /\ UNCHANGED <<mode, body, calls, cursor, thread, received, valVars>>

NextLexer == NextToken

SpecLexer == InitLexer /\ [][NextLexer]_vars

-----------------------------------------------------------------------------
(* A Lexer driven by a consumer that resumes with next_token() and probes  *)
(* with next_token(p).                                                     *)

\* Longest body, and the number of calls made on the lexer.
MaxSeekLen == 3
MaxSeekCalls == 3

SeekChars == {32, 34, 63, 97}

SeekSources == SeqsUpTo(SeekChars, MaxSeekLen)

InitSeek ==
    /\ mode = "seek"
    /\ body \in SeekSources
    /\ prev_position = 0
    /\ lastResult = NoResult
    /\ tokens = <<>>
    /\ calls = <<>>
    /\ cursor = <<>>
    /\ thread = <<>>
    /\ received = <<>>
    /\ ValidateIdle

\* One next_token(reset_position) call and its record in the call history.
Called(reset_position) ==
    LET c == next_token(body, prev_position, reset_position) IN
      /\ lastResult' = [ok |-> c.r.ok, tok |-> c.r.tok, pos |-> c.r.pos,
                        msg |-> c.r.msg, from |-> c.from, called |-> TRUE]
      /\ prev_position' = c.prev_position
      /\ tokens' = IF c.r.ok THEN Append(tokens, c.r.tok) ELSE tokens
      /\ calls' = Append(calls,
            [arg |-> reset_position, prev |-> prev_position, from |-> c.from,
             ok |-> c.r.ok, tok |-> c.r.tok, pos |-> c.r.pos, msg |-> c.r.msg,
             after |-> c.prev_position, had |-> Len(tokens),
             has |-> IF c.r.ok THEN Len(tokens) + 1 ELSE Len(tokens)])

\* lexer.next_token()
Resume ==
    /\ mode = "seek"
    /\ Len(calls) < MaxSeekCalls
    /\ Called(PyNone)
    /\ UNCHANGED <<mode, body, cursor, thread, received, valVars>>

\* lexer.next_token(p)
Probe ==
    /\ mode = "seek"
    /\ Len(calls) < MaxSeekCalls
    /\ \E p \in 0..Len(body) : Called(Some(p))
    /\ UNCHANGED <<mode, body, cursor, thread, received, valVars>>

NextSeek == Resume \/ Probe

SpecSeek == InitSeek /\ [][NextSeek]_vars

-----------------------------------------------------------------------------
(* Concurrent callers of next_token().  A call is three steps: read        *)
(* self.prev_position, read_token, write self.prev_position.  Callers 1    *)
(* and 2 share one Lexer; callers 3 and 4 have a Lexer each.  All Lexers   *)
(* are over the same source.                                               *)

\* Longest body, and the number of next_token() calls each caller makes.
MaxCallerLen == 2
MaxCallerCalls == 2

Callers == 1..4
Lexers  == 1..3
Sharers == {1, 2}
Owners  == {3, 4}

LexerOfShared(c) == 1

\* The Lexer instance caller c holds.
LexerOf(c) == IF c \in Sharers THEN 1 ELSE c - 1

CallerChars == {33, 63, 97}

CallerSources == SeqsUpTo(CallerChars, MaxCallerLen)

Idle(n) == [at |-> "idle", reset_position |-> 0, token |-> Token("none", 0, 0),
            done |-> n]

InitCallers ==
    /\ mode = "callers"
    /\ body \in CallerSources
    /\ prev_position = 0
    /\ lastResult = NoResult
    /\ tokens = <<>>
    /\ calls = <<>>
    /\ cursor = [l \in Lexers |-> 0]
    /\ thread = [c \in Callers |-> Idle(0)]
    /\ received = [c \in Callers |-> <<>>]
    /\ ValidateIdle

\* if reset_position is None: reset_position = self.prev_position
ReadCursor(c) ==
    /\ mode = "callers"
    /\ thread[c].at = "idle" /\ thread[c].done < MaxCallerCalls
    /\ thread' = [thread EXCEPT ![c] =
                    [@ EXCEPT !.at = "scan",
                              !.reset_position =
                                  ResetPosition(cursor[LexerOf(c)], PyNone)]]
    /\ UNCHANGED <<mode, body, prev_position, lastResult, tokens, calls,
                   cursor, received, valVars>>

\* token = read_token(self.source, reset_position); an error ends the call.
Scan(c) ==
    /\ mode = "callers"
    /\ thread[c].at = "scan"
    /\ LET r == read_token(body, thread[c].reset_position) IN
         thread' = [thread EXCEPT ![c] =
                      IF r.ok THEN [@ EXCEPT !.at = "write", !.token = r.tok]
                              ELSE Idle(@.done + 1)]
    /\ UNCHANGED <<mode, body, prev_position, lastResult, tokens, calls,
                   cursor, received, valVars>>

\* self.prev_position = token.end; return token
WriteCursor(c) ==
    /\ mode = "callers"
    /\ thread[c].at = "write"
    /\ cursor' = [cursor EXCEPT ![LexerOf(c)] = NextPosition(thread[c].token)]
    /\ received' = [received EXCEPT ![c] = Append(@, thread[c].token)]
    /\ thread' = [thread EXCEPT ![c] = Idle(@.done + 1)]
    /\ UNCHANGED <<mode, body, prev_position, lastResult, tokens, calls,
                   valVars>>

NextCallers == \E c \in Callers : ReadCursor(c) \/ Scan(c) \/ WriteCursor(c)

SpecCallers == InitCallers /\ [][NextCallers]_vars

\* One caller alone: the tokens and the cursor after k next_token() calls.
RECURSIVE Alone(_, _)
Alone(b, k) ==
    IF k = 0 THEN [tokens |-> <<>>, prev_position |-> 0]
    ELSE LET s == Alone(b, k - 1)
             c == next_token(b, s.prev_position, PyNone)
         IN  [tokens |-> IF c.r.ok THEN Append(s.tokens, c.r.tok) ELSE s.tokens,
              prev_position |-> c.prev_position]

-----------------------------------------------------------------------------
(* The whole model: one behaviour runs validate(), queries a context, or   *)
(* drives Lexers.                                                          *)

Init == InitValidate \/ InitEntry \/ InitContext
          \/ InitLexer \/ InitSeek \/ InitCallers

Next == NextEntry \/ NextContext \/ NextLexer \/ NextSeek \/ NextCallers

Spec == Init /\ [][Next]_vars

-----------------------------------------------------------------------------
(* Claims about the lexer.  The grammar is stated here on its own, by the  *)
(* positions at which a match can end, and compared with what read_token   *)
(* returned.                                                               *)

RxAt(b, i) == IF i >= 0 /\ i < Len(b) THEN b[i + 1] ELSE 0
RxDigit(c) == c \in 48..57
RxDigits(b, i, j) == j > i /\ \A k \in i..(j - 1) : RxDigit(RxAt(b, k))
RxMax(S) == CHOOSE x \in S : \A y \in S : y <= x

\* Ends q of a match of -?(0|[1-9][0-9]*) that starts at p.
RxIntEnds(b, p) ==
    { q \in (p + 1)..Len(b) :
        \E m \in {0, 1} :
            /\ m = 1 => RxAt(b, p) = 45
            /\ RxDigits(b, p + m, q)
            /\ RxAt(b, p + m) = 48 => q = p + m + 1 }

\* Ends r of a match of \.[0-9]+ that starts at q.
RxFracEnds(b, q) ==
    { r \in (q + 2)..Len(b) : RxAt(b, q) = 46 /\ RxDigits(b, q + 1, r) }

\* Ends t of a match of e-?[0-9]+ that starts at r.
RxExpEnds(b, r) ==
    { t \in (r + 2)..Len(b) :
        /\ RxAt(b, r) = 101
        /\ \E m \in {0, 1} :
             (m = 1 => RxAt(b, r + 1) = 45) /\ RxDigits(b, r + 1 + m, t) }

RxFracAfterInt(b, p) == UNION {RxFracEnds(b, q) : q \in RxIntEnds(b, p)}
RxExpAfterFrac(b, p) == UNION {RxExpEnds(b, r) : r \in RxFracAfterInt(b, p)}
RxExpAfterInt(b, p)  == UNION {RxExpEnds(b, q) : q \in RxIntEnds(b, p)}

\* A '.' right after the integer part with no digit behind it.
RxDanglingDot(b, p) ==
    LET q == RxMax(RxIntEnds(b, p))
    IN  RxAt(b, q) = 46 /\ ~RxDigit(RxAt(b, q + 1))

\* An 'e' right after the fractional part with no (signed) digits behind it.
RxDanglingExpAfterFrac(b, p) ==
    /\ RxFracAfterInt(b, p) # {}
    /\ LET r == RxMax(RxFracAfterInt(b, p))
       IN  RxAt(b, r) = 101 /\ RxExpEnds(b, r) = {}

\* An 'e' right after the integer part with no (signed) digits behind it.
RxDanglingExpAfterInt(b, p) ==
    LET q == RxMax(RxIntEnds(b, p))
    IN  RxAt(b, q) = 101 /\ RxExpEnds(b, q) = {}

\* The position the last call scanned from, after whitespace and comments.
LastScan == position_after_whitespace(body, lastResult.from)

LastAtNumber ==
    lastResult.called /\ (RxAt(body, LastScan) = 45 \/ RxDigit(RxAt(body, LastScan)))

IsNumberToken(ends, float) ==
    /\ lastResult.ok
    /\ lastResult.tok.start = LastScan
    /\ lastResult.tok.end = RxMax(ends)
    /\ lastResult.tok.valued
    /\ lastResult.tok.value = SubSeq(body, LastScan + 1, RxMax(ends))
    /\ lastResult.tok.kind = IF float THEN "FLOAT" ELSE "INT"

IsInvalidNumber == ~lastResult.ok /\ lastResult.msg = "Invalid number"

\* C6: a STRING token is returned only when the string is closed: its span runs
\* from the opening quote through a closing quote that is in the source.
C6_StringSpanIsClosed ==
    (lastResult.called /\ lastResult.ok /\ lastResult.tok.kind = "STRING")
        => /\ lastResult.tok.start = LastScan
           /\ RxAt(body, lastResult.tok.start) = 34
           /\ lastResult.tok.end <= Len(body)
           /\ lastResult.tok.end - 1 > lastResult.tok.start
           /\ RxAt(body, lastResult.tok.end - 1) = 34

\* C7, as stated: at a '-' or a digit, the token is the longest prefix matching
\* -?(0|[1-9][0-9]*)(\.[0-9]+)?(e-?[0-9]+)?, the fraction and the exponent each
\* optional on its own; FLOAT when either was matched; a '.' or an 'e' without
\* digits behind it is an error.
C7_ExponentWithoutFraction ==
    (LastAtNumber /\ RxIntEnds(body, LastScan) # {})
        => IF \/ RxDanglingDot(body, LastScan)
              \/ RxDanglingExpAfterFrac(body, LastScan)
              \/ (RxFracAfterInt(body, LastScan) = {}
                    /\ RxDanglingExpAfterInt(body, LastScan))
           THEN IsInvalidNumber
           ELSE IsNumberToken(RxIntEnds(body, LastScan)
                                \cup RxFracAfterInt(body, LastScan)
                                \cup RxExpAfterFrac(body, LastScan)
                                \cup RxExpAfterInt(body, LastScan),
                              RxFracAfterInt(body, LastScan) # {}
                                \/ RxExpAfterInt(body, LastScan) # {})

\* C7, amended: the exponent is part of the number only behind a fractional
\* part: the token is the longest prefix matching
\* -?(0|[1-9][0-9]*)(\.[0-9]+(e-?[0-9]+)?)?, FLOAT exactly when a fractional
\* part was matched; a '-' with no digit behind it, a '.' behind the integer
\* part or an 'e' behind the fractional part with no digit behind it, is the
\* error "Invalid number".
C7_NumberLongestMatch ==
    LastAtNumber
        => IF RxIntEnds(body, LastScan) = {} THEN IsInvalidNumber
           ELSE IF \/ RxDanglingDot(body, LastScan)
                   \/ RxDanglingExpAfterFrac(body, LastScan)
           THEN IsInvalidNumber
           ELSE IsNumberToken(RxIntEnds(body, LastScan)
                                \cup RxFracAfterInt(body, LastScan)
                                \cup RxExpAfterFrac(body, LastScan),
                              RxFracAfterInt(body, LastScan) # {})

C7_Witness ==
    /\ lastResult.called /\ lastResult.ok
    /\ lastResult.tok.kind = "FLOAT"
    /\ lastResult.tok.value = <<49, 46, 49, 101, 45, 49>>

\* C8: an integer part '0' directly followed by a digit is a lexical error
\* reported at the offset of that digit.
C8_LeadingZeroIsError ==
    LET z == IF RxAt(body, LastScan) = 45 THEN LastScan + 1 ELSE LastScan
    IN  (lastResult.called /\ RxAt(body, z) = 48 /\ RxDigit(RxAt(body, z + 1)))
            => (~lastResult.ok /\ lastResult.pos = z + 1)

\* C9, amended: at a '.' at offset p, SPREAD with span [p, p+3) is returned
\* exactly when the next two characters are dots too; otherwise the error
\* "Unexpected character" is raised at offset p, the offset of that dot
\* (offset 0 for the source '..').
C9_SpreadOrErrorAtDot ==
    (lastResult.called /\ RxAt(body, LastScan) = 46)
        => IF RxAt(body, LastScan + 1) = 46 /\ RxAt(body, LastScan + 2) = 46
           THEN lastResult.ok /\ lastResult.tok = Token("SPREAD", LastScan, LastScan + 3)
           ELSE /\ ~lastResult.ok
                /\ lastResult.msg = "Unexpected character"
                /\ lastResult.pos = LastScan

\* C9, as stated: the same, but for the source '..' the error is reported at
\* offset 1.
C9_TwoDotsErrorAtOffsetOne ==
    (lastResult.called /\ RxAt(body, LastScan) = 46)
        => IF RxAt(body, LastScan + 1) = 46 /\ RxAt(body, LastScan + 2) = 46
           THEN lastResult.ok /\ lastResult.tok = Token("SPREAD", LastScan, LastScan + 3)
           ELSE /\ ~lastResult.ok
                /\ lastResult.msg = "Unexpected character"
                /\ body = <<46, 46>> => lastResult.pos = 1

\* A SPREAD was returned and the dot behind it raised the error.
C9_Witness ==
    /\ body = <<46, 46, 46, 46>>
    /\ tokens = <<Token("SPREAD", 0, 3)>>
    /\ ~lastResult.ok /\ lastResult.pos = 3

\* C10: repeated next_token() calls terminate: a token that is not EOF has
\* end > start and starts at or behind the previous token's end, so an EOF
\* (with start = end) is returned within Len(body) + 1 calls; every call after
\* it returns that same EOF, and prev_position stays the last token's end.
C10_TokensAdvanceToEOF ==
    /\ \A i \in 1..Len(tokens) :
         /\ tokens[i].kind # "EOF" => tokens[i].end > tokens[i].start
         /\ tokens[i].kind = "EOF" => tokens[i].end = tokens[i].start
         /\ i > 1 => tokens[i].start >= tokens[i - 1].end
         /\ (i > 1 /\ tokens[i - 1].kind = "EOF") => tokens[i] = tokens[i - 1]
    /\ Len(tokens) > Len(body) => \E i \in 1..Len(tokens) : tokens[i].kind = "EOF"
    /\ tokens # <<>> => prev_position = tokens[Len(tokens)].end

\* Three tokens, then EOF twice.
C10_Witness ==
    /\ Len(tokens) = 5
    /\ tokens[3].kind # "EOF"
    /\ tokens[4].kind = "EOF" /\ tokens[5].kind = "EOF"
    /\ lastResult.ok /\ prev_position = Len(body)

\* C12: whatever calls came before, next_token(p) returns (or raises) exactly
\* what read_token(source, p) does, p = 0 included, and next_token() what
\* read_token(source, prev_position) does; a successful call of either kind
\* leaves prev_position at the returned token's end, and the next call finds
\* the cursor where the previous call left it.
C12_ExplicitPositionRescans ==
    \A i \in 1..Len(calls) :
        LET c == calls[i]
            r == read_token(body, IF c.arg.none THEN c.prev ELSE c.arg.value)
        IN  /\ c.ok = r.ok /\ c.tok = r.tok /\ c.pos = r.pos /\ c.msg = r.msg
            /\ c.ok => c.after = c.tok.end
            /\ c.prev = IF i = 1 THEN 0 ELSE calls[i - 1].after
            /\ i = Len(calls) => prev_position = c.after

\* A token is read, read again by next_token(0) with the cursor behind it, and
\* the third call resumes behind the rescanned token.
C12_Witness ==
    /\ Len(calls) = 3
    /\ calls[1].arg.none /\ calls[1].ok /\ calls[1].after > 0
    /\ ~calls[2].arg.none /\ calls[2].arg.value = 0 /\ calls[2].prev > 0
    /\ calls[2].ok /\ calls[2].tok = calls[1].tok
    /\ calls[3].arg.none /\ calls[3].prev = calls[1].after

\* Every call from i + 1 to j is a next_token() with no explicit position.
OnlyResumed(i, j) == \A k \in (i + 1)..j : calls[k].arg.none

\* C19, as stated: a next_token call that raises, with or without an explicit
\* position, leaves prev_position and the returned tokens as they were, and
\* every next_token() after it raises the same error at the same offset until
\* a call with an explicit position is made.
C19_AnyRaiseRepeats ==
    \A i \in 1..Len(calls) :
        ~calls[i].ok =>
            /\ calls[i].after = calls[i].prev
            /\ calls[i].has = calls[i].had
            /\ \A j \in (i + 1)..Len(calls) :
                 OnlyResumed(i, j) =>
                     /\ ~calls[j].ok
                     /\ calls[j].pos = calls[i].pos
                     /\ calls[j].msg = calls[i].msg
                     /\ calls[j].after = calls[i].prev

\* C19, amended: a next_token call that raises leaves prev_position and the
\* returned tokens as they were; when the raising call scanned from the cursor
\* (no explicit position, or one equal to prev_position), every next_token()
\* after it raises the same error at the same offset until a call with an
\* explicit position is made; after a raise the cursor changes only by a
\* successful call with an explicit position.
C19_RaiseLeavesCursor ==
    \A i \in 1..Len(calls) :
        ~calls[i].ok =>
            /\ calls[i].after = calls[i].prev
            /\ calls[i].has = calls[i].had
            /\ \A j \in (i + 1)..Len(calls) :
                 /\ (calls[i].from = calls[i].prev /\ OnlyResumed(i, j)) =>
                       /\ ~calls[j].ok
                       /\ calls[j].pos = calls[i].pos
                       /\ calls[j].msg = calls[i].msg
                       /\ calls[j].after = calls[i].prev
                 /\ (calls[i].from = calls[i].prev
                       /\ calls[j].after # calls[i].prev) =>
                       \E k \in (i + 1)..j : ~calls[k].arg.none /\ calls[k].ok

\* next_token() raises behind the cursor, raises again, and a probe with an
\* explicit position moves the cursor past the error's offset.
C19_Witness ==
    /\ Len(calls) = 3
    /\ calls[1].arg.none /\ ~calls[1].ok /\ calls[1].pos > calls[1].prev
    /\ calls[2].arg.none /\ ~calls[2].ok /\ calls[2].pos = calls[1].pos
    /\ ~calls[3].arg.none /\ calls[3].ok /\ calls[3].after > calls[1].pos

\* The characters read_token ignores between tokens, and the line terminators.
RxInsignificant(c) == c \in {32, 44, 160, 8232, 8233} \/ c \in 9..13
RxLineTerminator(c) == c \in {10, 13, 8232, 8233}

\* The character at i is behind a '#' at or after p, with no line terminator
\* from that '#' up to and including i.
RxInComment(b, p, i) ==
    \E h \in p..i :
        /\ RxAt(b, h) = 35
        /\ \A k \in (h + 1)..i : ~RxLineTerminator(RxAt(b, k))

RxSkipped(b, p, i) == RxInsignificant(RxAt(b, i)) \/ RxInComment(b, p, i)

\* The smallest q >= p with everything in [p, q) skipped and the character at
\* q, if there is one, significant.
RxFirstSignificant(b, p) ==
    CHOOSE q \in p..Len(b) :
        /\ q = Len(b) \/ ~RxSkipped(b, p, q)
        /\ \A i \in p..(q - 1) : RxSkipped(b, p, i)

\* C14: position_after_whitespace(body, p) is the smallest q >= p such that
\* every character of [p, q) is an insignificant character or part of a '#'
\* comment that runs up to the next line terminator, and the character at q is
\* significant; a returned token starts there, and an error is raised at or
\* behind it.
C14_SkipsToFirstSignificant ==
    (lastResult.called /\ lastResult.from <= Len(body)) =>
        LET q == RxFirstSignificant(body, lastResult.from)
        IN  /\ position_after_whitespace(body, lastResult.from) = q
            /\ lastResult.ok => lastResult.tok.start = q
            /\ ~lastResult.ok => (q < Len(body) /\ lastResult.pos >= q)

\* The value of a hex digit, by its place in the digits' order.
RxHexOrder == <<48, 49, 50, 51, 52, 53, 54, 55, 56, 57>>
RxHexUpper == <<65, 66, 67, 68, 69, 70>>
RxHexLower == <<97, 98, 99, 100, 101, 102>>
RxIsHex(c) ==
    \/ \E i \in 1..Len(RxHexOrder) : RxHexOrder[i] = c
    \/ \E i \in 1..Len(RxHexUpper) : RxHexUpper[i] = c \/ RxHexLower[i] = c
RxHexValue(c) ==
    IF \E i \in 1..Len(RxHexOrder) : RxHexOrder[i] = c
    THEN (CHOOSE i \in 1..Len(RxHexOrder) : RxHexOrder[i] = c) - 1
    ELSE (CHOOSE i \in 1..Len(RxHexUpper) :
              RxHexUpper[i] = c \/ RxHexLower[i] = c) + 9

\* The character an escape letter stands for.
RxEscape(c) ==
    CASE c = 98 -> 8 [] c = 102 -> 12 [] c = 110 -> 10 [] c = 114 -> 13
      [] c = 116 -> 9 [] OTHER -> c

\* The decoded text of the well-formed string contents b[i..e-1] (offsets from
\* 0): verbatim characters and escape substitutions, in source order.
RECURSIVE RxDecode(_, _, _)
RxDecode(b, i, e) ==
    IF i >= e THEN <<>>
    ELSE IF RxAt(b, i) # 92 THEN <<RxAt(b, i)>> \o RxDecode(b, i + 1, e)
    ELSE IF RxAt(b, i + 1) # 117
         THEN <<RxEscape(RxAt(b, i + 1))>> \o RxDecode(b, i + 2, e)
    ELSE << 4096 * RxHexValue(RxAt(b, i + 2)) + 256 * RxHexValue(RxAt(b, i + 3))
              + 16 * RxHexValue(RxAt(b, i + 4)) + RxHexValue(RxAt(b, i + 5)) >>
           \o RxDecode(b, i + 6, e)

\* The body is a quote, a verbatim character and a \u escape.
RxStartsWithEscape(b) ==
    Len(b) >= 4 /\ SubSeq(b, 1, 4) = <<34, 97, 92, 117>>

\* C15: in a string read from offset 0, a \u escape followed by four hex
\* digits contributes the one code point the digits denote and scanning goes
\* on behind the fourth digit: when the string is then closed, the token ends
\* at the closing quote and its value is the verbatim runs and the escape
\* substitutions in source order; when one of the four characters is no hex
\* digit or is past the end of input, 'Bad character escape sequence' is
\* raised and no token is returned.
C15_UnicodeEscapeDecodes ==
    (lastResult.called /\ lastResult.from = 0 /\ RxStartsWithEscape(body)) =>
        IF \A j \in 4..7 : RxIsHex(RxAt(body, j))
        THEN SubSeq(body, 9, Len(body)) \in {<<97, 34>>, <<92, 110, 34>>} =>
               /\ lastResult.ok
               /\ lastResult.tok.kind = "STRING"
               /\ lastResult.tok.start = 0 /\ lastResult.tok.end = Len(body)
               /\ lastResult.tok.value = RxDecode(body, 1, Len(body) - 1)
        ELSE /\ ~lastResult.ok
             /\ lastResult.msg = "Bad character escape sequence"

\* The string "a\ufF9A\n" was read: its value is a, U+FF9A, newline.
C15_Witness ==
    /\ body = <<34, 97, 92, 117, 102, 70, 57, 65, 92, 110, 34>>
    /\ lastResult.ok /\ lastResult.from = 0
    /\ lastResult.tok.value = <<97, 65434, 10>>
    /\ lastResult.tok.end = 11

\* C18: a token returned by read_token(source, p) with 0 <= p <= len(body)
\* has p <= start <= end <= len(body), with start = end exactly for EOF; so
\* prev_position never exceeds the length of the source.
C18_TokenSpanInsideSource ==
    /\ (lastResult.called /\ lastResult.ok /\ lastResult.from <= Len(body)) =>
          /\ lastResult.from <= lastResult.tok.start
          /\ lastResult.tok.start <= lastResult.tok.end
          /\ lastResult.tok.end <= Len(body)
          /\ (lastResult.tok.start = lastResult.tok.end)
                <=> (lastResult.tok.kind = "EOF")
    /\ prev_position <= Len(body)

-----------------------------------------------------------------------------
(* Claims about concurrent callers of next_token().                        *)

\* C17: a caller that has its own Lexer receives, under every interleaving
\* with the other callers, exactly the tokens it would receive running alone,
\* and its Lexer's prev_position is what it would be alone; two callers that
\* share a Lexer can both be returned the same token while prev_position
\* moves backward (the witness).
C17_OwnLexerAsAlone ==
    \A c \in Owners :
        /\ received[c] = Alone(body, thread[c].done).tokens
        /\ cursor[LexerOf(c)] = Alone(body, thread[c].done).prev_position
        /\ thread[c].at = "scan"
              => thread[c].reset_position = cursor[LexerOf(c)]

\* Caller 1 was returned two tokens and caller 2 the first of them again; the
\* shared prev_position, which caller 1 left at the end of the second token,
\* is back at the end of the first.  Both owners have made their calls and
\* hold the two tokens.
C17_Witness ==
    /\ Len(received[1]) = 2 /\ Len(received[2]) = 1
    /\ received[2][1] = received[1][1]
    /\ received[1][1].end < received[1][2].end
    /\ cursor[LexerOf(1)] = received[1][1].end
    /\ \A c \in Owners :
          thread[c].done = MaxCallerCalls /\ received[c] = received[1]

====
